---- MODULE Spec2Model ----
(***************************************************************************)
(* Model of the staircase experiment of src/Experiment.py: the Staircase   *)
(* state machine (get_next_sample, calc_next_sample, run, backtrack,       *)
(* determine_is_finished), the scheduler (Experiment.next_staircase) and   *)
(* the turn-based loop (Experiment.run, undo_last_answer, main).           *)
(* Sample values are integers; the operator's keyboard input and           *)
(* random.choice are nondeterministic inputs of the actions.               *)
(***************************************************************************)
EXTENDS Integers, Sequences, FiniteSets, TLC

VARIABLES staircases, open_staircases, swap_criteria, current_staircase,
          last_staircase, pc, event, undone

vars == <<staircases, open_staircases, swap_criteria, current_staircase,
          last_staircase, pc, event, undone>>

(* ---------------------------- bounds ----------------------------------- *)

\* total number of trials submitted over all staircases
MaxTests == 5

\* number of times undo_last_answer is invoked
MaxUndo == 2

(* ------------------------- Python values ------------------------------- *)

\* None for a staircase reference (current_staircase, last_staircase)
NoStaircase == 0

\* None for last_sample; a sample value v is held as <<v>>
NoSample == << >>

Some(v) == <<v>>

\* None for a direction
NoDirection == "None"

Abs(x) == IF x < 0 THEN -x ELSE x

\* what read_choice returns: a presented value, False ('q') or 'Backtrack'
ChoiceValue(v) == [kind |-> "value", v |-> v]

QuitChoice == [kind |-> "False", v |-> 0]

BacktrackChoice == [kind |-> "Backtrack", v |-> 0]

\* Python ==  between what read_choice returned and a float:
\* False == 0.0 is true, 'Backtrack' equals no float
PyEq(sel, x) == sel.kind \in {"value", "False"} /\ sel.v = x

\* Python  sel in [a, b]
PyIn(sel, a, b) == PyEq(sel, a) \/ PyEq(sel, b)

(* --------------------------- ResultSet --------------------------------- *)

\* reversal / test_sample_change are only assigned when next_sample_data
\* is given (run) or afterwards by backtrack
ResultSet(target, test_sample, presented_first, sample_num, correct, current_direction, next_sample_data) ==
  [target |-> target, test_sample |-> test_sample,
   presented_first |-> presented_first, sample_num |-> sample_num,
   correct |-> correct, current_direction |-> current_direction,
   reversal |-> next_sample_data[1],
   test_sample_change |-> next_sample_data[2]]

(* --------------------------- Staircase --------------------------------- *)

\* a configuration: the [Staircase Default] options, the per-staircase
\* start values and the swap criteria
StaircaseInit(cfg, number) ==
  LET start == cfg.start_values[number]
      flip  == cfg.reference < start
  IN [name |-> number,
      harder_step |-> IF flip THEN -cfg.harder_step ELSE cfg.harder_step,
      easier_step |-> IF flip THEN -cfg.easier_step ELSE cfg.easier_step,
      target |-> cfg.reference,
      start_value |-> start,
      run_initial_setup |-> cfg.initial_setup,
      correct_reverse_count |-> cfg.reversal_correct_count,
      end_criteria_reversals |-> cfg.end_criteria_reversals,
      initial_setup |-> cfg.initial_setup,
      is_finished |-> FALSE,
      current_sample |-> start,
      correct_count |-> 0,
      test_count |-> 0,
      reversal_count |-> 0,
      results |-> << >>,
      current_direction |-> NoDirection,
      last_sample |-> NoSample]

\* the clamp of calc_next_sample (lines 302-308) on the moved sample
ClampSample(s, moved) ==
  IF s.start_value < s.target /\ s.target <= moved
    THEN s.target - Abs(s.harder_step)
  ELSE IF s.start_value > s.target /\ s.target >= moved
    THEN s.target + Abs(s.harder_step)
  ELSE IF (s.target > s.start_value /\ s.start_value > moved)
          \/ (s.target < s.start_value /\ s.start_value < moved)
    THEN s.start_value
  ELSE moved

\* CalcNextSample with the harder step also used to move further away
CalcNextSampleOneStep(s, direction) ==
  IF direction = "closer"
    THEN [s EXCEPT !.current_sample = ClampSample(s, s.current_sample + s.harder_step)]
  ELSE IF direction = "further"
    THEN [s EXCEPT !.current_sample = ClampSample(s, s.current_sample - s.harder_step)]
  ELSE [s EXCEPT !.current_sample = ClampSample(s, s.current_sample)]

CalcNextSample(s, direction) ==
  IF direction = "closer"
    THEN [s EXCEPT !.current_sample = ClampSample(s, s.current_sample + s.harder_step)]
  ELSE IF direction = "further"
    THEN [s EXCEPT !.current_sample = ClampSample(s, s.current_sample - s.easier_step)]
  ELSE [s EXCEPT !.current_sample = ClampSample(s, s.current_sample)]

\* the first branch of get_next_sample (line 264)
TightenBySetup(s, last_correct) ==
  last_correct /\ s.initial_setup = "Y" /\ s.reversal_count = 0

\* the elif of get_next_sample (line 268), correct_count already incremented
TightenByCount(s, last_correct) ==
  /\ last_correct
  /\ ~TightenBySetup(s, last_correct)
  /\ s.correct_count + 1 = s.correct_reverse_count

\* the local variable direction of get_next_sample
Direction(s, last_correct) ==
  IF ~last_correct THEN "further"
  ELSE IF TightenBySetup(s, last_correct) \/ TightenByCount(s, last_correct) THEN "closer"
  ELSE NoDirection

\* lines 262-280 of get_next_sample: correct_count, initial_setup and the sample
MoveSample(s, last_correct) ==
  IF ~last_correct
    THEN [CalcNextSample(s, "further") EXCEPT
            !.initial_setup = IF s.test_count = 0 /\ s.initial_setup = "Y" THEN "N" ELSE @,
            !.correct_count = 0]
  ELSE IF TightenBySetup(s, last_correct)
    THEN [CalcNextSample(s, "closer") EXCEPT !.correct_count = @ + 1]
  ELSE IF TightenByCount(s, last_correct)
    THEN [CalcNextSample(s, "closer") EXCEPT !.correct_count = 0]
  ELSE [s EXCEPT !.correct_count = @ + 1]

\* IsReversal without the test that the sample changed
IsReversalIgnoresSample(s, direction) ==
  /\ s.last_sample # NoSample
  /\ s.current_direction # NoDirection
  /\ s.current_direction # direction

\* the condition of line 281
IsReversal(s, direction) ==
  /\ s.last_sample # NoSample
  /\ s.last_sample # Some(s.current_sample)
  /\ s.current_direction # NoDirection
  /\ s.current_direction # direction

\* the condition of line 284
TakesDirection(s, direction) ==
  \/ s.current_direction = NoDirection
  \/ (s.last_sample # Some(s.current_sample) /\ s.current_direction # direction)

\* lines 281-287 of get_next_sample on the moved staircase; the result is the
\* updated staircase and return_value = <<reversal, sample changed>>
NoteReversal(s, direction) ==
  [s |-> [s EXCEPT
            !.reversal_count = IF IsReversal(s, direction) THEN @ + 1 ELSE @,
            !.current_direction = IF TakesDirection(s, direction) THEN direction ELSE @,
            !.last_sample = Some(s.current_sample)],
   return_value |-> <<IsReversal(s, direction), direction # NoDirection>>]

GetNextSample(s, last_correct) ==
  NoteReversal(MoveSample(s, last_correct), Direction(s, last_correct))

CheckCorrect(selected_choice, target, sample) ==
  IF PyEq(selected_choice, target) /\ target > sample THEN TRUE
  ELSE IF PyEq(selected_choice, sample) /\ sample > target THEN TRUE
  ELSE FALSE

\* DetermineIsFinished one reversal early
DetermineIsFinishedEarly(s) ==
  IF s.reversal_count + 1 = s.end_criteria_reversals
    THEN [s EXCEPT !.is_finished = TRUE] ELSE s

DetermineIsFinished(s) ==
  IF s.reversal_count = s.end_criteria_reversals
    THEN [s EXCEPT !.is_finished = TRUE] ELSE s

\* lines 334-337 of Staircase.run with n the result of get_next_sample: the
\* arguments of ResultSet are evaluated left to right, so test_sample and
\* current_direction are those of s, read before get_next_sample ran
AppendResult(s, choice1, correct, n) ==
  DetermineIsFinished(
    [n.s EXCEPT
       !.results = Append(@, ResultSet(s.target, s.current_sample, choice1, s.test_count,
                                       correct, s.current_direction, n.return_value)),
       !.test_count = @ + 1])

\* the end of Staircase.run (lines 334-338) for a judgment
RunRecord(s, choice1, correct) ==
  AppendResult(s, choice1, correct, GetNextSample(s, correct))

\* Staircase.run from the point where a choice was accepted (line 333 on)
RunAccepted(s, choice1, selected_choice) ==
  RunRecord(s, choice1, CheckCorrect(selected_choice, s.target, s.current_sample))

\* ReplayStep with the reversal flag of the record never counted
ReplayStepIgnoresReversal(s, acc, r) ==
  [correct_count |->
     IF r.correct
       THEN IF (s.initial_setup # "Y" \/ acc.reversal_count # 0)
               /\ acc.correct_count + 1 = s.correct_reverse_count
              THEN 0 ELSE acc.correct_count + 1
       ELSE 0,
   reversal_count |-> acc.reversal_count,
   last_sample |-> Some(r.test_sample)]

\* one round of the loop of backtrack over the surviving results (lines
\* 435-445); acc holds correct_count, reversal_count and last_sample
ReplayStep(s, acc, r) ==
  [correct_count |->
     IF r.correct
       THEN IF (s.initial_setup # "Y" \/ acc.reversal_count + (IF r.reversal THEN 1 ELSE 0) # 0)
               /\ acc.correct_count + 1 = s.correct_reverse_count
              THEN 0 ELSE acc.correct_count + 1
       ELSE 0,
   reversal_count |-> acc.reversal_count + (IF r.reversal THEN 1 ELSE 0),
   last_sample |-> Some(r.test_sample)]

RECURSIVE ReplayResults(_, _, _, _)
ReplayResults(s, results, i, acc) ==
  IF i > Len(results) THEN acc
  ELSE ReplayResults(s, results, i + 1, ReplayStep(s, acc, results[i]))

\* what read_choice returns for the operator's key; '<' is only accepted
\* when allow_backtrack is set (other keys are asked again)
ReadChoice(choice1, choice2, answer) ==
  IF answer = "q" THEN QuitChoice
  ELSE IF answer = "<" THEN BacktrackChoice
  ELSE IF answer = "1" THEN ChoiceValue(choice1)
  ELSE ChoiceValue(choice2)

\* choice1 and choice2 of backtrack (lines 409-414)
BacktrackChoice1(last_result) ==
  IF last_result.presented_first = last_result.target
    THEN last_result.target ELSE last_result.test_sample

BacktrackChoice2(last_result) ==
  IF last_result.presented_first = last_result.target
    THEN last_result.test_sample ELSE last_result.target

\* results.pop()
Popped(s) == SubSeq(s.results, 1, Len(s.results) - 1)

\* BacktrackSame with the popped tail record not put back
BacktrackSameDropsTail(s, last_result) ==
  [s EXCEPT !.results = Popped(s)]

\* the unchanged answer (lines 450-452): the popped tail record is appended again
BacktrackSame(s, last_result) ==
  [s EXCEPT !.results = Append(Popped(s), last_result)]

\* lines 446-449: the counters take the values replayed into acc
BacktrackReplayed(s, acc) ==
  [s EXCEPT !.results = Popped(s),
            !.correct_count = acc.correct_count,
            !.reversal_count = acc.reversal_count,
            !.last_sample = acc.last_sample]

\* BacktrackRestore with current_sample left where the discarded answer put it
BacktrackRestoreKeepsSample(s, last_result) ==
  [s EXCEPT !.initial_setup = IF last_result.sample_num = 0 THEN s.run_initial_setup ELSE @,
            !.current_direction = last_result.current_direction,
            !.test_count = last_result.sample_num,
            !.last_sample = Some(last_result.test_sample)]

\* lines 454-459: the staircase is put back to the tail trial
BacktrackRestore(s, last_result) ==
  [s EXCEPT !.initial_setup = IF last_result.sample_num = 0 THEN s.run_initial_setup ELSE @,
            !.current_direction = last_result.current_direction,
            !.current_sample = last_result.test_sample,
            !.test_count = last_result.sample_num,
            !.last_sample = Some(last_result.test_sample)]

\* BacktrackAppend with the new record numbered after test_count was incremented
BacktrackAppendRenumbers(n, last_result, correct) ==
  [DetermineIsFinished([n.s EXCEPT !.test_count = @ + 1]) EXCEPT
     !.results = Append(@, ResultSet(n.s.target, last_result.test_sample,
                                     BacktrackChoice1(last_result), n.s.test_count + 1,
                                     correct, n.s.current_direction, n.return_value))]

\* lines 460-466 with n the result of get_next_sample: the new record takes
\* the reversal flag and the direction as they are after the trial
BacktrackAppend(n, last_result, correct) ==
  [DetermineIsFinished([n.s EXCEPT !.test_count = @ + 1]) EXCEPT
     !.results = Append(@, ResultSet(n.s.target, last_result.test_sample,
                                     BacktrackChoice1(last_result), last_result.sample_num,
                                     correct, n.s.current_direction, n.return_value))]

\* the changed answer (lines 427-466)
BacktrackChanged(s, last_result, correct) ==
  BacktrackAppend(
    GetNextSample(
      BacktrackRestore(
        BacktrackReplayed(s, ReplayResults(s, Popped(s), 1,
          [correct_count |-> 0, reversal_count |-> 0, last_sample |-> Some(0)])),
        last_result),
      correct),
    last_result, correct)

\* backtrack from line 421 on, the entered value being one of the choices
BacktrackJudged(s, last_result, correct) ==
  IF last_result.correct = correct
    THEN [s |-> BacktrackSame(s, last_result), outcome |-> "same"]
  ELSE [s |-> BacktrackChanged(s, last_result, correct), outcome |-> "changed"]

\* backtrack from line 418 on
BacktrackSelected(s, last_result, selected_choice) ==
  IF ~PyIn(selected_choice, BacktrackChoice1(last_result), BacktrackChoice2(last_result))
    THEN [s |-> s, outcome |-> "returned"]
  ELSE BacktrackJudged(s, last_result,
         CheckCorrect(selected_choice, last_result.target, last_result.test_sample))

\* Staircase.backtrack; outcome is "IndexError" (results[-1] of an empty
\* list), "returned" (the entered value was not one of the choices),
\* "same" (the answer did not change) or "changed"
Backtrack(s, answer) ==
  IF s.results = << >> THEN [s |-> s, outcome |-> "IndexError"]
  ELSE BacktrackSelected(s, s.results[Len(s.results)],
         ReadChoice(BacktrackChoice1(s.results[Len(s.results)]),
                    BacktrackChoice2(s.results[Len(s.results)]), answer))

(* --------------------------- Experiment -------------------------------- *)

\* list.index: position of the first entry equal to x (0 when absent)
RECURSIVE IndexOf(_, _, _)
IndexOf(list, x, i) ==
  IF i > Len(list) THEN 0
  ELSE IF list[i] = x THEN i
  ELSE IndexOf(list, x, i + 1)

\* the list without its entry at position i
RemoveAt(list, i) ==
  IF i = 0 THEN list
  ELSE SubSeq(list, 1, i - 1) \o SubSeq(list, i + 1, Len(list))

\* list.remove: drops the first entry equal to x
Remove(list, x) == RemoveAt(list, IndexOf(list, x, 1))

HasOpenStaircases(open) == Len(open) > 0

\* AlternateFrom wrapping one entry early
AlternateFromWrapsEarly(open, current_index) ==
  IF current_index = 0 THEN open[1]
  ELSE IF current_index + 1 >= Len(open) THEN open[1]
  ELSE open[current_index + 1]

\* the Alternate branch of next_staircase with current_index the result of
\* open_staircases.index (0: ValueError)
AlternateFrom(open, current_index) ==
  IF current_index = 0 THEN open[1]
  ELSE IF current_index = Len(open) THEN open[1]
  ELSE open[current_index + 1]

\* Experiment.next_staircase on a non-empty open list; pick is the index
\* random.choice draws; NoStaircase is the None a call returns when it
\* runs off the end of the function
NextStaircase(stairs, open, criteria, current, pick) ==
  IF current = NoStaircase THEN open[1]
  ELSE IF criteria = "Serial"
    THEN IF stairs[current].is_finished THEN open[1] ELSE NoStaircase
  ELSE IF criteria = "Alternate" THEN AlternateFrom(open, IndexOf(open, current, 1))
  ELSE IF criteria = "Random" THEN open[pick]
  ELSE NoStaircase

\* lines 96-98 of undo_last_answer: a finished staircase is re-opened
Reopened(s) == [s EXCEPT !.is_finished = FALSE]

\* UndoResult with last_sample held in common by all staircases
UndoResultSharesLastSample(stairs, open, last, b) ==
  [staircases |-> [j \in DOMAIN stairs |->
                     IF j = last THEN b.s
                     ELSE [stairs[j] EXCEPT !.last_sample = b.s.last_sample]],
   open |-> IF stairs[last].is_finished THEN Append(open, last) ELSE open,
   outcome |-> b.outcome]

\* undo_last_answer with b the result of last_staircase.backtrack()
UndoResult(stairs, open, last, b) ==
  [staircases |-> [stairs EXCEPT ![last] = b.s],
   open |-> IF stairs[last].is_finished THEN Append(open, last) ELSE open,
   outcome |-> b.outcome]

\* Experiment.undo_last_answer; outcome "AttributeError" when last_staircase
\* is None, otherwise the outcome of Staircase.backtrack
UndoLastAnswer(stairs, open, last, answer) ==
  IF last = NoStaircase
    THEN [staircases |-> stairs, open |-> open, outcome |-> "AttributeError"]
  ELSE UndoResult(stairs, open, last, Backtrack(Reopened(stairs[last]), answer))

\* CancelAll with no staircase marked
CancelAllMarksNone(stairs, open) == stairs

\* the else branch of Experiment.run: every open staircase is marked finished
CancelAll(stairs, open) ==
  [i \in DOMAIN stairs |->
     IF IndexOf(open, i, 1) # 0 THEN [stairs[i] EXCEPT !.is_finished = TRUE]
     ELSE stairs[i]]

RECURSIVE SumTests(_, _)
SumTests(stairs, i) ==
  IF i > Len(stairs) THEN 0 ELSE stairs[i].test_count + SumTests(stairs, i + 1)

(* ------------------------- configurations ------------------------------ *)

Config(starts, ref, harder, easier, rcc, ecr, setup, swap) ==
  [start_values |-> starts, reference |-> ref, harder_step |-> harder,
   easier_step |-> easier, reversal_correct_count |-> rcc,
   end_criteria_reversals |-> ecr, initial_setup |-> setup,
   swap_criteria |-> swap]

Configs ==
  { Config(<<10>>, 50, 5, 2, 2, 2, "N", "Alternate"),
    Config(<<100>>, 0, 10, 5, 1, 2, "N", "Alternate"),
    Config(<<100>>, 0, 10, 5, 1, 2, "Y", "Random"),
    Config(<<10>>, 12, 5, 2, 1, 1, "N", "Alternate"),
    Config(<<10, 40, 20>>, 30, 5, 5, 1, 1, "Y", "Alternate"),
    Config(<<10, 40>>, 30, 5, 5, 1, 1, "N", "Serial"),
    Config(<<10, 40>>, 30, 5, 5, 1, 1, "N", "Alternate"),
    Config(<<10>>, 50, 5, 2, 2, 2, "Y", "Alternate"),
    Config(<< >>, 30, 5, 5, 1, 1, "N", "Alternate") }

(* ----------------------------- actions --------------------------------- *)

\* event records the last step taken and undone counts the invocations of
\* undo_last_answer; neither is read by the program
Event(kind, staircase) == [kind |-> kind, staircase |-> staircase]

\* main before Experiment is constructed: the attributes as the first
\* lines of Experiment.__init__ set them
Init ==
  /\ staircases = << >>
  /\ open_staircases = << >>
  /\ swap_criteria = ""
  /\ current_staircase = NoStaircase
  /\ last_staircase = NoStaircase
  /\ pc = "start"
  /\ event = [kind |-> "start", staircase |-> NoStaircase]
  /\ undone = 0

\* Experiment.__init__ / process_config on a configuration file every
\* option of which is present and parses; 'staircase count' is the number
\* of start values, and main enters its loop only when a staircase is open
Construct ==
  /\ pc = "start"
  /\ \E cfg \in Configs :
       /\ staircases' = [i \in 1..Len(cfg.start_values) |-> StaircaseInit(cfg, i)]
       /\ open_staircases' = [i \in 1..Len(cfg.start_values) |-> i]
       /\ swap_criteria' = cfg.swap_criteria
  /\ pc' = IF HasOpenStaircases(open_staircases') THEN "run" ELSE "finish"
  /\ event' = [kind |-> "init", staircase |-> NoStaircase]
  /\ UNCHANGED <<current_staircase, last_staircase, undone>>

\* process_config on a file with a missing section or option: main catches
\* the exception, prints a message and exits
ConstructRejected ==
  /\ pc = "start"
  /\ \E missing \in {"NoSectionError", "NoOptionError"} :
       event' = [kind |-> missing, staircase |-> NoStaircase]
  /\ pc' = "exit"
  /\ UNCHANGED <<staircases, open_staircases, swap_criteria, current_staircase,
                 last_staircase, undone>>

\* process_config on a file with a non-numeric value: getint / getfloat
\* raise ValueError, which main does not catch
ConstructRaises ==
  /\ pc = "start"
  /\ event' = [kind |-> "ValueError", staircase |-> NoStaircase]
  /\ pc' = "error"
  /\ UNCHANGED <<staircases, open_staircases, swap_criteria, current_staircase,
                 last_staircase, undone>>

\* the staircase this turn of the loop of Experiment.run consults
Consulted(pick) ==
  NextStaircase(staircases, open_staircases, swap_criteria, current_staircase, pick)

\* lines 64-65 of Experiment.run
TurnStarts(next) ==
  /\ last_staircase' = current_staircase
  /\ current_staircase' = next

\* choice1 and choice2 of Staircase.run; first is what random.choice drew
Choice1(s, first) == IF first = "sample" THEN s.current_sample ELSE s.target

Choice2(s, first) == IF first = "sample" THEN s.target ELSE s.current_sample

\* lines 69-71 of Experiment.run: after is the consulted staircase once
\* Staircase.run recorded the trial
TrialRecorded(next, after) ==
  /\ staircases' = [staircases EXCEPT ![next] = after]
  /\ open_staircases' = IF after.is_finished THEN Remove(open_staircases, next)
                        ELSE open_staircases
  /\ pc' = IF HasOpenStaircases(open_staircases') THEN "run" ELSE "ask_end"
  /\ event' = Event("trial", next)

\* Staircase.run accepts the entered value when it is one of the two
\* choices (line 323) and Experiment.run handles the result True
TrialTurn(next, first, selected_choice) ==
  /\ next # NoStaircase
  /\ PyIn(selected_choice, staircases[next].current_sample, staircases[next].target)
  /\ TurnStarts(next)
  /\ TrialRecorded(next, RunAccepted(staircases[next], Choice1(staircases[next], first),
                                     selected_choice))

\* one turn of the loop of Experiment.run in which the operator's key is
\* accepted as a choice: the trial is recorded and a finished staircase
\* leaves the open list
RunTrial ==
  /\ pc = "run"
  /\ HasOpenStaircases(open_staircases)
  /\ SumTests(staircases, 1) < MaxTests
  /\ \E pick \in 1..Len(open_staircases), first \in {"sample", "target"}, answer \in {"1", "2", "q"} :
       /\ Consulted(pick) # NoStaircase
       /\ TrialTurn(Consulted(pick), first,
                    ReadChoice(Choice1(staircases[Consulted(pick)], first),
                               Choice2(staircases[Consulted(pick)], first), answer))
  /\ UNCHANGED <<swap_criteria, undone>>

\* the state undo_last_answer(last) leaves, u being its result
UndoApplied(u, last) ==
  /\ staircases' = u.staircases
  /\ open_staircases' = u.open
  /\ event' = Event(u.outcome, last)
  /\ undone' = undone + 1

Raised(outcome) == outcome \in {"IndexError", "AttributeError"}

\* a turn in which the operator enters '<' (accepted once a staircase was
\* consulted before): undo_last_answer re-asks the tail trial of
\* last_staircase; answer is the key entered at that prompt
RunBacktrack ==
  /\ pc = "run"
  /\ HasOpenStaircases(open_staircases)
  /\ current_staircase # NoStaircase
  /\ undone < MaxUndo
  /\ \E pick \in 1..Len(open_staircases), answer \in {"1", "2", "q"} :
       /\ Consulted(pick) # NoStaircase
       /\ TurnStarts(Consulted(pick))
       /\ UndoApplied(UndoLastAnswer(staircases, open_staircases, current_staircase, answer),
                      current_staircase)
  /\ pc' = IF Raised(event'.kind) THEN "error" ELSE "run"
  /\ UNCHANGED swap_criteria

\* a turn in which the operator enters 'q', which is none of the choices,
\* and confirms: run returns False and main goes on to finish_experiement
RunCancel ==
  /\ pc = "run"
  /\ HasOpenStaircases(open_staircases)
  /\ \E pick \in 1..Len(open_staircases) :
       /\ Consulted(pick) # NoStaircase
       /\ ~PyIn(QuitChoice, staircases[Consulted(pick)].current_sample,
                staircases[Consulted(pick)].target)
       /\ TurnStarts(Consulted(pick))
       /\ event' = Event("cancel", Consulted(pick))
  /\ staircases' = CancelAll(staircases, open_staircases)
  /\ open_staircases' = << >>
  /\ pc' = "finish"
  /\ UNCHANGED <<swap_criteria, undone>>

\* next_staircase returned None: current_staircase.run raises
RunNone ==
  /\ pc = "run"
  /\ HasOpenStaircases(open_staircases)
  /\ \E pick \in 1..Len(open_staircases) :
       /\ Consulted(pick) = NoStaircase
       /\ TurnStarts(NoStaircase)
  /\ pc' = "error"
  /\ event' = Event("AttributeError", NoStaircase)
  /\ UNCHANGED <<staircases, open_staircases, swap_criteria, undone>>

\* main after run returned True: the operator agrees to end
EndYes ==
  /\ pc = "ask_end"
  /\ pc' = "finish"
  /\ event' = Event("end", NoStaircase)
  /\ UNCHANGED <<staircases, open_staircases, swap_criteria, current_staircase, last_staircase, undone>>

\* main after run returned True: the operator answers 'n' and the last
\* answer is undone; run is entered again when a staircase was re-opened
EndNo ==
  /\ pc = "ask_end"
  /\ undone < MaxUndo
  /\ \E answer \in {"1", "2", "q"} :
       UndoApplied(UndoLastAnswer(staircases, open_staircases, last_staircase, answer),
                   last_staircase)
  /\ current_staircase' = NoStaircase
  /\ pc' = IF Raised(event'.kind) THEN "error"
           ELSE IF HasOpenStaircases(open_staircases') THEN "run" ELSE "finish"
  /\ UNCHANGED <<swap_criteria, last_staircase>>

Next ==
  \/ Construct \/ ConstructRejected \/ ConstructRaises
  \/ RunTrial \/ RunBacktrack \/ RunCancel \/ RunNone \/ EndYes \/ EndNo

Spec == Init /\ [][Next]_vars

TypeOK == pc \in {"start", "exit", "run", "ask_end", "finish", "error"}

(* ------------------------ claims: helpers ------------------------------ *)

Stairs == DOMAIN staircases

TailRecord(s) == s.results[Len(s.results)]

\* the judgments recorded so far, in submission order
Answers(s) == [k \in 1..Len(s.results) |-> s.results[k].correct]

\* a staircase as Staircase.__init__ leaves it, with the configuration of s
FreshStaircase(s) ==
  [s EXCEPT !.initial_setup = s.run_initial_setup, !.is_finished = FALSE,
            !.current_sample = s.start_value, !.correct_count = 0,
            !.test_count = 0, !.reversal_count = 0, !.results = << >>,
            !.current_direction = NoDirection, !.last_sample = NoSample]

\* the fresh staircase after the first k recorded judgments of s were
\* submitted to it through Staircase.run
RECURSIVE FreshRun(_, _)
FreshRun(s, k) ==
  IF k = 0 THEN FreshStaircase(s)
  ELSE RunRecord(FreshRun(s, k - 1), s.results[k].presented_first, s.results[k].correct)

SameDependentState(s, f) ==
  /\ s.current_sample = f.current_sample
  /\ s.current_direction = f.current_direction
  /\ s.correct_count = f.correct_count
  /\ s.reversal_count = f.reversal_count
  /\ s.last_sample = f.last_sample
  /\ s.test_count = f.test_count
  /\ s.initial_setup = f.initial_setup
  /\ s.is_finished = f.is_finished
  /\ TailRecord(s).reversal = TailRecord(f).reversal

(* ------------------------------ C1 ------------------------------------- *)

\* C1: after backtrack replaced the tail answer by the opposite correctness,
\* the dependent state of the staircase (current_sample, current_direction,
\* correct_count, reversal_count, last_sample, test_count, initial_setup,
\* is_finished, reversal flag of the tail record) equals that of a fresh
\* staircase given the corrected judgment history through Staircase.run
BacktrackEqualsFreshRun ==
  \A i \in Stairs :
    (event.kind = "changed" /\ event.staircase = i)
      => SameDependentState(staircases[i], FreshRun(staircases[i], Len(staircases[i].results)))

\* the same statement for the first backtrack of an experiment
FirstBacktrackEqualsFreshRun == undone <= 1 => BacktrackEqualsFreshRun

(* ------------------------------ C2 ------------------------------------- *)

Min(a, b) == IF a < b THEN a ELSE b

Max(a, b) == IF a < b THEN b ELSE a

\* C2: current_sample lies between min(start,target) and max(start,target),
\* may equal start, and never equals or passes target
SampleBetweenStartAndTarget ==
  \A i \in Stairs :
    LET s == staircases[i]
    IN /\ Min(s.start_value, s.target) <= s.current_sample
       /\ s.current_sample <= Max(s.start_value, s.target)
       /\ s.current_sample # s.target

(* ------------------------------ C3 ------------------------------------- *)

\* C3: in every reachable state a staircase's is_finished is true if and
\* only if its reversal_count equals end_criteria_reversals
FinishedIffReversalsReached ==
  \A i \in Stairs :
    staircases[i].is_finished
      <=> (staircases[i].reversal_count = staircases[i].end_criteria_reversals)

\* the direction of C3 that a cancel does not touch: a staircase that holds
\* the target reversal count is finished
ReversalsReachedImpliesFinished ==
  \A i \in Stairs :
    (staircases[i].reversal_count = staircases[i].end_criteria_reversals)
      => staircases[i].is_finished

(* ------------------------------ C4 ------------------------------------- *)

FlaggedReversals(s) == Cardinality({k \in 1..Len(s.results) : s.results[k].reversal})

\* C4: after any sequence of trials and backtracks, reversal_count equals
\* the number of records in results whose reversal flag is true
ReversalCountMatchesFlags ==
  \A i \in Stairs : staircases[i].reversal_count = FlaggedReversals(staircases[i])

\* a backtrack that changed the answer has replayed at least two surviving
\* records, one of them a reversal
ReplayedReversalReached ==
  /\ event.kind = "changed"
  /\ Len(staircases[event.staircase].results) >= 3
  /\ \E k \in 1..(Len(staircases[event.staircase].results) - 1) :
       staircases[event.staircase].results[k].reversal

(* ------------------------------ C5 ------------------------------------- *)

DirectionChanges(s) ==
  Cardinality({k \in 1..(Len(s.results) - 1) :
                 /\ s.results[k].current_direction # NoDirection
                 /\ s.results[k + 1].current_direction # NoDirection
                 /\ s.results[k].current_direction # s.results[k + 1].current_direction})

\* C5: after N trials (and no backtrack) reversal_count equals the number
\* of adjacent pairs of records whose stored directions differ, pairs with
\* an unset direction not counted
ReversalCountMatchesStoredDirections ==
  undone = 0 =>
    \A i \in Stairs : staircases[i].reversal_count = DirectionChanges(staircases[i])

(* ------------------------------ C6 ------------------------------------- *)

\* C6: a backtrack answered with the correctness the tail record already
\* holds leaves current_sample, reversal_count, correct_count and the whole
\* results sequence unchanged
SameAnswerBacktrackChangesNothing ==
  [][\A i \in Stairs :
       (event'.kind = "same" /\ event'.staircase = i)
         => /\ staircases'[i].current_sample = staircases[i].current_sample
            /\ staircases'[i].reversal_count = staircases[i].reversal_count
            /\ staircases'[i].correct_count = staircases[i].correct_count
            /\ staircases'[i].results = staircases[i].results]_vars

\* a backtrack has just been answered as before on a staircase with records
SameAnswerBacktrackReached ==
  /\ event.kind = "same"
  /\ Len(staircases[event.staircase].results) >= 2

(* ------------------------------ C7 ------------------------------------- *)

Finished(i) == staircases[i].is_finished

ReversalsReached(i) == staircases[i].reversal_count = staircases[i].end_criteria_reversals

BacktrackEvents == {"changed", "same", "returned", "IndexError"}

\* C7 as stated: is_finished goes from false to true exactly on the trial
\* whose processing makes reversal_count equal end_criteria_reversals, on
\* no other event, and from true to false only through a backtrack
FinishedOnlyByFinishingTrial ==
  [][\A i \in Stairs :
       /\ (~Finished(i) /\ Finished(i)')
            => (event'.kind = "trial" /\ event'.staircase = i /\ ReversalsReached(i)')
       /\ (event'.kind = "trial" /\ event'.staircase = i /\ ReversalsReached(i)')
            => Finished(i)'
       /\ (Finished(i) /\ ~Finished(i)')
            => (event'.kind \in BacktrackEvents /\ event'.staircase = i)]_vars

\* C7 amended: is_finished goes from false to true only on a trial, or on
\* a backtrack that re-answers the tail trial, whose processing leaves
\* reversal_count equal to end_criteria_reversals, or on a confirmed cancel;
\* every such trial or re-answer leaves it true; it goes from true to false
\* only through a backtrack of that staircase
FinishedByTrialBacktrackOrCancel ==
  [][\A i \in Stairs :
       /\ (~Finished(i) /\ Finished(i)')
            => \/ (event'.kind \in {"trial", "changed"} /\ event'.staircase = i
                   /\ ReversalsReached(i)')
               \/ event'.kind = "cancel"
       /\ (event'.kind \in {"trial", "changed"} /\ event'.staircase = i /\ ReversalsReached(i)')
            => Finished(i)'
       /\ (Finished(i) /\ ~Finished(i)')
            => (event'.kind \in BacktrackEvents /\ event'.staircase = i)]_vars

\* a re-answered tail trial has just brought a staircase to its target
\* reversal count and finished it
FinishedByBacktrackReached ==
  /\ event.kind = "changed"
  /\ Finished(event.staircase)
  /\ ReversalsReached(event.staircase)

(* ------------------------------ C8 ------------------------------------- *)

\* the single staircase with start=10, target=50, harder step=5, easier
\* step=2, reversal correct count=2, end criteria reversals=2, no initial setup
IsScenarioStaircase(s) ==
  /\ s.start_value = 10 /\ s.target = 50 /\ s.harder_step = 5 /\ s.easier_step = 2
  /\ s.correct_reverse_count = 2 /\ s.end_criteria_reversals = 2
  /\ s.run_initial_setup = "N"

ScenarioAnswers == <<TRUE, TRUE, FALSE, TRUE, TRUE>>

ScenarioSamples == <<10, 10, 15, 13, 13, 18>>

ScenarioReversals == <<0, 0, 0, 1, 1, 2>>

\* the first n judgments of the scenario were submitted, nothing else
ScenarioPrefix(n) ==
  /\ Len(staircases) = 1
  /\ IsScenarioStaircase(staircases[1])
  /\ undone = 0
  /\ event.kind \in {"init", "trial"}
  /\ Len(staircases[1].results) = n
  /\ Answers(staircases[1]) = SubSeq(ScenarioAnswers, 1, n)

\* C8: the correctness sequence [true,true,false,true,true] produces the
\* pre-trial samples 10,10,15,13,13 and the final sample 18, reversal_count
\* reaches 2 on the 5th trial and not earlier, and is_finished is false
\* after trials 1-4 and true after trial 5
ScenarioTrajectory ==
  \A n \in 0..5 :
    ScenarioPrefix(n) =>
      /\ \A k \in 1..n : staircases[1].results[k].test_sample = ScenarioSamples[k]
      /\ staircases[1].current_sample = ScenarioSamples[n + 1]
      /\ staircases[1].reversal_count = ScenarioReversals[n + 1]
      /\ staircases[1].is_finished = (n = 5)

ScenarioCompleted == ScenarioPrefix(5)

(* ------------------------------ C9 ------------------------------------- *)

\* the single staircase with start=100, target=0, harder step 10, easier
\* step 5 (steps negated because the target is below the start) and
\* reversal correct count=1
IsDescendingStaircase(s) ==
  /\ s.start_value = 100 /\ s.target = 0 /\ s.harder_step = -10 /\ s.easier_step = -5
  /\ s.correct_reverse_count = 1

TrialsOnly(answers) ==
  /\ Len(staircases) = 1
  /\ IsDescendingStaircase(staircases[1])
  /\ undone = 0
  /\ event.kind = "trial"
  /\ Answers(staircases[1]) = answers

\* correct then incorrect were submitted and the second trial was then
\* backtracked to correct
SecondTrialBacktracked ==
  /\ Len(staircases) = 1
  /\ IsDescendingStaircase(staircases[1])
  /\ undone = 1
  /\ event.kind = "changed"
  /\ Answers(staircases[1]) = <<TRUE, TRUE>>

\* correct_count after two correct answers: reset at the threshold of 1,
\* but counted on while the initial setup tightens on every correct answer
StreakAfterTwoCorrect(s) == IF s.run_initial_setup = "Y" THEN 2 ELSE 0

BacktrackScenario(loosened) ==
  /\ TrialsOnly(<<TRUE>>) =>
       /\ staircases[1].current_sample = 90
       /\ staircases[1].current_direction = "closer"
  /\ TrialsOnly(<<TRUE, FALSE>>) =>
       /\ staircases[1].current_sample = loosened
       /\ staircases[1].current_direction = "further"
       /\ TailRecord(staircases[1]).reversal
       /\ staircases[1].reversal_count = 1
  /\ SecondTrialBacktracked =>
       /\ staircases[1].current_sample = 80
       /\ staircases[1].reversal_count = 0
       /\ staircases[1].correct_count = StreakAfterTwoCorrect(staircases[1])
       /\ ~TailRecord(staircases[1]).reversal

\* C9 as stated: after trial 1 correct the sample is 90 with direction
\* closer; after trial 2 incorrect the sample is 85, direction further, the
\* trial a reversal and reversal_count 1; backtracking trial 2 to correct
\* yields sample 80, reversal_count 0, correct_count per the streak rule and
\* no reversal flag on the new tail record
BacktrackScenarioLoosensTo85 == BacktrackScenario(85)

\* C9 amended: the same with the sample after the incorrect trial 2 being
\* 95 (the easier step of 5 away from the reference 0)
BacktrackScenarioLoosensTo95 == BacktrackScenario(95)

(* ------------------------------ C10 ------------------------------------ *)

AlternateNext(current) ==
  NextStaircase(staircases, open_staircases, swap_criteria, current, 1)

InOpenList(c) == \E k \in 1..Len(open_staircases) : open_staircases[k] = c

\* C10: under Alternate, next_staircase(None) is the first open staircase;
\* for a staircase in the open list it is the entry following it, wrapping
\* from the last to the first; for a staircase no longer in the open list
\* it is the first open staircase; with [A,B,C] open next(A)=B, next(B)=C,
\* next(C)=A, and with B removed next(A)=C
AlternateFollowsOpenList ==
  (swap_criteria = "Alternate" /\ open_staircases # << >>) =>
    /\ AlternateNext(NoStaircase) = open_staircases[1]
    /\ \A c \in Stairs :
         IF InOpenList(c)
           THEN \E k \in 1..Len(open_staircases) :
                  /\ open_staircases[k] = c
                  /\ \A j \in 1..(k - 1) : open_staircases[j] # c
                  /\ AlternateNext(c) = open_staircases[(k % Len(open_staircases)) + 1]
           ELSE AlternateNext(c) = open_staircases[1]
    /\ open_staircases = <<1, 2, 3>> =>
         AlternateNext(1) = 2 /\ AlternateNext(2) = 3 /\ AlternateNext(3) = 1
    /\ open_staircases = <<1, 3>> => AlternateNext(1) = 3

\* of three staircases the second has finished and left the open list
SecondStaircaseRemoved ==
  /\ swap_criteria = "Alternate"
  /\ open_staircases = <<1, 3>>
  /\ staircases[2].is_finished

(* ------------------------------ C11 ------------------------------------ *)

\* C11: under Serial every turn of Experiment.run takes the staircase of
\* the previous turn while that staircase is unfinished (next_staircase
\* (current) returns current), takes the first open staircase once it is
\* finished, and never takes a finished staircase
SerialStaysUntilFinished ==
  [][(swap_criteria = "Serial" /\ pc = "run" /\ current_staircase # NoStaircase) =>
       /\ ~staircases[current_staircase].is_finished
            => current_staircase' = current_staircase
       /\ staircases[current_staircase].is_finished
            => current_staircase' = open_staircases[1]
       /\ current_staircase' # NoStaircase
       /\ ~staircases[current_staircase'].is_finished]_vars

(* ------------------------------ C12 ------------------------------------ *)

\* this step is an invocation of undo_last_answer that reaches
\* Staircase.backtrack on staircase i
Backtracks(i) == undone' = undone + 1 /\ event'.staircase = i

\* C12: a backtrack invoked on a staircase whose results sequence is empty
\* is a no-op: no staircase or scheduler state changes and no error is raised
EmptyBacktrackIsNoOp ==
  [][\A i \in Stairs :
       (Backtracks(i) /\ staircases[i].results = << >>) =>
         /\ staircases' = staircases
         /\ open_staircases' = open_staircases
         /\ event'.kind # "IndexError"
         /\ pc' # "error"]_vars

(* ------------------------------ C13 ------------------------------------ *)

\* C13: on a confirmed cancel every staircase still in the open list is
\* marked finished, the open list becomes empty, no record is appended to
\* any staircase and run returns False (main goes on to finish_experiement
\* without asking); run returns True (main asks whether to end) only after
\* a trial that emptied the open list
CancelEndsRunEarly ==
  [][/\ event'.kind = "cancel" =>
          /\ \A i \in Stairs : InOpenList(i) => staircases'[i].is_finished
          /\ open_staircases' = << >>
          /\ \A i \in Stairs : staircases'[i].results = staircases[i].results
          /\ pc' = "finish"
     /\ (pc' = "ask_end" /\ pc # "ask_end") =>
          /\ event'.kind = "trial"
          /\ open_staircases' = << >>]_vars

\* a cancel was confirmed while several staircases were open, one of them
\* holding a record
CancelReached ==
  /\ event.kind = "cancel"
  /\ pc = "finish"
  /\ Len(staircases) >= 2
  /\ \A i \in Stairs : staircases[i].is_finished
  /\ \E i \in Stairs : staircases[i].results # << >>

(* ------------------------------ C14 ------------------------------------ *)

\* the last step submitted or re-asked a judgment on a staircase: that
\* staircase holds the most recently answered trial of the experiment
\* whenever the re-asked trial was itself the most recently answered one
JudgmentEvents == {"trial", "changed", "same", "returned"}

\* C14: whenever undo_last_answer is invoked (by '<' inside run, also
\* several times in succession, or from main) the trial it re-asks is the
\* most recently answered trial of the experiment: right after a trial on a
\* staircase, or after a backtrack that re-asked that staircase's tail, the
\* next undo re-asks the tail of the same staircase
UndoReasksLatestAnswer ==
  [][(undone' = undone + 1 /\ event.kind \in JudgmentEvents)
       => event'.staircase = event.staircase]_vars

(* ------------------------------ C15 ------------------------------------ *)

\* C15: after any sequence of trials, cancelled prompts and backtracks the
\* record at (0-based) position i of a staircase's results has sample_num
\* i, and test_count equals the number of records
RecordsOrderedByTrialIndex ==
  \A i \in Stairs :
    /\ \A k \in 1..Len(staircases[i].results) : staircases[i].results[k].sample_num = k - 1
    /\ staircases[i].test_count = Len(staircases[i].results)

\* a backtrack has replaced the tail of a staircase holding several records
TailReplacedReached ==
  /\ event.kind = "changed"
  /\ Len(staircases[event.staircase].results) >= 2

(* ------------------------------ C16 ------------------------------------ *)

\* the staircase undo_last_answer would act on if it were invoked now: the
\* staircase of the last turn inside run, last_staircase from main
UndoTarget == IF pc = "ask_end" THEN last_staircase ELSE current_staircase

SameTrialState(s, before) ==
  /\ s.results = before.results
  /\ s.current_sample = before.current_sample
  /\ s.current_direction = before.current_direction
  /\ s.correct_count = before.correct_count
  /\ s.reversal_count = before.reversal_count
  /\ s.test_count = before.test_count

\* C16: if the operator cancels ('q') at the prompt of Staircase.backtrack,
\* the backtrack is abandoned: results still ends with the original tail
\* record, unchanged, and current_sample, current_direction, correct_count,
\* reversal_count and test_count are unchanged
CancelledBacktrackChangesNothing ==
  (pc \in {"run", "ask_end"} /\ UndoTarget # NoStaircase
     /\ staircases[UndoTarget].results # << >>)
    => SameTrialState(Backtrack(Reopened(staircases[UndoTarget]), "q").s,
                      staircases[UndoTarget])

\* the same for the backtracks in which the entered value was not taken for
\* one of the two presented values (the return of line 419)
AbandonedBacktrackChangesNothing ==
  [][\A i \in Stairs :
       (Backtracks(i) /\ event'.kind = "returned")
         => SameTrialState(staircases'[i], staircases[i])]_vars

(* ------------------------------ C17 ------------------------------------ *)

OpenSet == {open_staircases[k] : k \in 1..Len(open_staircases)}

\* the staircase of the latest newly submitted trial is event.staircase:
\* either the last step was that trial, or it was the first undo of the
\* experiment, taken inside run, which re-asks the trial submitted on the
\* turn before it
LatestTrialAtEvent ==
  \/ event.kind = "trial"
  \/ /\ event.kind \in {"changed", "same", "returned"}
     /\ undone = 1
     /\ current_staircase # NoStaircase

\* C17: under Alternate, whenever two or more staircases are open, a newly
\* submitted trial is never on the staircase of the previous newly
\* submitted trial, backtracks between the two included
AlternateChangesStaircase ==
  [][(swap_criteria = "Alternate" /\ Cardinality(OpenSet) >= 2
        /\ LatestTrialAtEvent /\ event'.kind = "trial")
       => event'.staircase # event.staircase]_vars

\* the same for two trials submitted on consecutive turns, no backtrack
\* between them
AlternateChangesStaircaseDirectly ==
  [][(swap_criteria = "Alternate" /\ Cardinality(OpenSet) >= 2
        /\ event.kind = "trial" /\ event'.kind = "trial")
       => event'.staircase # event.staircase]_vars

(* ------------------------------ C18 ------------------------------------ *)

Touched == {j \in Stairs : staircases'[j] # staircases[j]}

\* C18: a trial or a backtrack performed on one staircase leaves every
\* field of every other staircase unchanged, and only a cancel changes
\* more than one staircase
OtherStaircasesUntouched ==
  [][/\ \A i \in Stairs :
          (event'.kind \in {"trial"} \cup BacktrackEvents /\ event'.staircase = i)
            => \A j \in Stairs \ {i} : staircases'[j] = staircases[j]
     /\ (Stairs # {} /\ Cardinality(Touched) > 1) => event'.kind = "cancel"]_vars

\* a backtrack has replaced the tail of one staircase while another one
\* holds records
BacktrackBesideOthersReached ==
  /\ event.kind = "changed"
  /\ \E j \in Stairs \ {event.staircase} : staircases[j].results # << >>

(* ------------------------------ C19 ------------------------------------ *)

\* startup is over and the configuration was in error: an option or a
\* section was missing, a value was not numeric, or the staircase count
\* was below 1 (in each case no staircase exists)
ConfigurationInError == pc # "start" /\ staircases = << >>

\* C19: every configuration error is fatal at startup: the program stops
\* (with the message of main or with the exception), no trial is run and
\* the experiment proceeds neither to run nor to finish_experiement
ConfigErrorsAreFatal ==
  ConfigurationInError => pc \in {"exit", "error"}

(* ------------------------------ C20 ------------------------------------ *)

\* the staircase as get_next_sample finds it in this step: as it is for a
\* trial of Staircase.run, as backtrack has replayed and restored it for a
\* re-answered tail trial
EntryState(i) ==
  IF event'.kind = "trial" THEN staircases[i]
  ELSE BacktrackRestore(
         BacktrackReplayed(staircases[i],
           ReplayResults(staircases[i], Popped(staircases[i]), 1,
             [correct_count |-> 0, reversal_count |-> 0, last_sample |-> Some(0)])),
         TailRecord(staircases[i]))

\* the direction of the trial processed in this step
TrialDirection(i) == Direction(EntryState(i), TailRecord(staircases'[i]).correct)

\* the sample changed on this trial, a direction had been established
\* before it and the direction of this trial differs from it
ChangedAgainstDirection(i) ==
  /\ staircases'[i].current_sample # EntryState(i).current_sample
  /\ EntryState(i).current_direction # NoDirection
  /\ TrialDirection(i) # EntryState(i).current_direction

\* C20: every trial processed by get_next_sample is flagged a reversal and
\* adds exactly 1 to reversal_count if and only if the sample value changed
\* on it, a direction had been established before it and its direction
\* differs from that one, and otherwise leaves reversal_count unchanged;
\* current_direction is overwritten only when no direction existed yet or
\* when the sample changed and the direction differs
ReversalIffChangedAgainstDirection ==
  [][\A i \in Stairs :
       (event'.kind \in {"trial", "changed"} /\ event'.staircase = i) =>
         /\ TailRecord(staircases'[i]).reversal = ChangedAgainstDirection(i)
         /\ staircases'[i].reversal_count =
              EntryState(i).reversal_count + (IF ChangedAgainstDirection(i) THEN 1 ELSE 0)
         /\ staircases'[i].current_direction =
              IF EntryState(i).current_direction = NoDirection \/ ChangedAgainstDirection(i)
                THEN TrialDirection(i)
              ELSE EntryState(i).current_direction]_vars

\* a trial was flagged a reversal after an earlier trial of the same
\* staircase had left the sample where it was
ReversalAfterUnchangedSample ==
  /\ event.kind = "trial"
  /\ TailRecord(staircases[event.staircase]).reversal
  /\ \E k \in 1..Len(staircases[event.staircase].results) :
       ~staircases[event.staircase].results[k].test_sample_change

(* ------------------------------ C21 ------------------------------------ *)

\* C21: the record a trial leaves at the tail of results, appended by
\* Staircase.run or put there by Staircase.backtrack as the replacement,
\* stores as its direction the current_direction of the staircase as it is
\* after that trial was processed
RecordStoresDirectionAfterTrial ==
  \A i \in Stairs :
    (event.kind \in {"trial", "changed"} /\ event.staircase = i)
      => TailRecord(staircases[i]).current_direction = staircases[i].current_direction

\* the same for the replacement records of backtrack alone
ReplacementStoresDirectionAfterTrial ==
  \A i \in Stairs :
    (event.kind = "changed" /\ event.staircase = i)
      => TailRecord(staircases[i]).current_direction = staircases[i].current_direction

(* ------------------------------ C22 ------------------------------------ *)

\* a wrong answer is recorded before the tail trial of s
WrongBeforeTail(s) == \E k \in 1..(Len(s.results) - 1) : ~s.results[k].correct

\* the trial processed in this step moved the sample by the harder step
Tightened(i) ==
  /\ staircases'[i].current_sample = CalcNextSample(EntryState(i), "closer").current_sample
  /\ TailRecord(staircases'[i]).test_sample_change
  /\ TrialDirection(i) = "closer"

\* the trial processed in this step left the sample where it was
LeftUnchanged(i) ==
  /\ staircases'[i].current_sample = EntryState(i).current_sample
  /\ ~TailRecord(staircases'[i]).test_sample_change

\* C22: with initial setup = Y every correct answer submitted before the
\* staircase's first wrong answer tightens the sample regardless of the
\* streak threshold, and every correct answer submitted after the first
\* wrong answer tightens only when correct_count reaches the reversal
\* correct count (and is reset to 0) and otherwise leaves the sample unchanged
FirstErrorModeTightens ==
  [][\A i \in Stairs :
       (event'.kind \in {"trial", "changed"} /\ event'.staircase = i
          /\ staircases[i].run_initial_setup = "Y"
          /\ TailRecord(staircases'[i]).correct) =>
         IF ~WrongBeforeTail(staircases'[i]) THEN Tightened(i)
         ELSE IF EntryState(i).correct_count + 1 = staircases[i].correct_reverse_count
           THEN Tightened(i) /\ staircases'[i].correct_count = 0
         ELSE LeftUnchanged(i)]_vars

\* the same as long as no answer of the experiment was undone twice
FirstErrorModeTightensUpToOneUndo ==
  [][undone' <= 1 =>
       \A i \in Stairs :
         (event'.kind \in {"trial", "changed"} /\ event'.staircase = i
            /\ staircases[i].run_initial_setup = "Y"
            /\ TailRecord(staircases'[i]).correct) =>
           IF ~WrongBeforeTail(staircases'[i]) THEN Tightened(i)
           ELSE IF EntryState(i).correct_count + 1 = staircases[i].correct_reverse_count
             THEN Tightened(i) /\ staircases'[i].correct_count = 0
           ELSE LeftUnchanged(i)]_vars

(* ------------------------------ C23 ------------------------------------ *)

Occurrences(i) == Cardinality({k \in 1..Len(open_staircases) : open_staircases[k] = i})

\* C23: at the top of every iteration of the loop of Experiment.run the
\* open list holds exactly the staircases whose is_finished is false, each
\* exactly once
OpenListIsTheUnfinished ==
  pc = "run" =>
    \A i \in Stairs : Occurrences(i) = IF staircases[i].is_finished THEN 0 ELSE 1

\* the same as long as undo_last_answer was never invoked
OpenListIsTheUnfinishedWithoutUndo ==
  undone = 0 => OpenListIsTheUnfinished

(* ------------------------------ C24 ------------------------------------ *)

\* C24: reversal_count never exceeds end_criteria_reversals, and no new
\* trial is submitted to a staircase whose reversal_count already equals
\* end_criteria_reversals, also after it was re-opened for a backtrack
StopsAtTargetReversals ==
  [][/\ \A i \in DOMAIN staircases' :
          staircases'[i].reversal_count <= staircases'[i].end_criteria_reversals
     /\ \A i \in Stairs :
          (event'.kind = "trial" /\ event'.staircase = i)
            => staircases[i].reversal_count # staircases[i].end_criteria_reversals]_vars

\* the same as long as undo_last_answer was never invoked
StopsAtTargetReversalsWithoutUndo ==
  [][undone' = 0 =>
       /\ \A i \in DOMAIN staircases' :
            staircases'[i].reversal_count <= staircases'[i].end_criteria_reversals
       /\ \A i \in Stairs :
            (event'.kind = "trial" /\ event'.staircase = i)
              => staircases[i].reversal_count # staircases[i].end_criteria_reversals]_vars

(* ------------------------------ C25 ------------------------------------ *)

\* Staircase.run on staircase s for the key the operator enters at its
\* prompt: the trial is recorded when the value read_choice returns is one
\* of the two choices, otherwise run returns with s as it was
RunOnKey(s, first, answer) ==
  IF PyIn(ReadChoice(Choice1(s, first), Choice2(s, first), answer), s.current_sample, s.target)
    THEN RunAccepted(s, Choice1(s, first),
                     ReadChoice(Choice1(s, first), Choice2(s, first), answer))
  ELSE s

\* the staircases the next turn of Experiment.run can prompt
Promptable ==
  IF pc = "run" /\ HasOpenStaircases(open_staircases)
    THEN {Consulted(pick) : pick \in 1..Len(open_staircases)} \ {NoStaircase}
  ELSE {}

\* C25: the cancel request 'q' is never treated as a judgment, whatever the
\* reference and the current sample, 0 included: entered at the prompt of
\* Staircase.run or at the prompt of Staircase.backtrack it appends or
\* replaces no record and changes no staircase state
CancelIsNeverAJudgment ==
  /\ \A c \in Promptable : \A first \in {"sample", "target"} :
       RunOnKey(staircases[c], first, "q") = staircases[c]
  /\ (pc \in {"run", "ask_end"} /\ UndoTarget # NoStaircase
        /\ staircases[UndoTarget].results # << >>)
       => Backtrack(Reopened(staircases[UndoTarget]), "q").s = Reopened(staircases[UndoTarget])

\* the same for the staircases whose reference, current sample and
\* recorded samples are all different from 0
CancelIsNoJudgmentAwayFromZero ==
  /\ \A c \in Promptable : \A first \in {"sample", "target"} :
       (staircases[c].target # 0 /\ staircases[c].current_sample # 0)
         => RunOnKey(staircases[c], first, "q") = staircases[c]
  /\ (pc \in {"run", "ask_end"} /\ UndoTarget # NoStaircase
        /\ staircases[UndoTarget].results # << >>
        /\ staircases[UndoTarget].target # 0
        /\ TailRecord(staircases[UndoTarget]).test_sample # 0)
       => Backtrack(Reopened(staircases[UndoTarget]), "q").s = Reopened(staircases[UndoTarget])

====
